---- MODULE Spec2Model ----
(***************************************************************************)
(* Model of the SP-Portal quote calculators.                               *)
(*                                                                         *)
(*   src/StateApplications/ny/quote-calculator.js  (NY rate-card engine)   *)
(*   src/quote-calculator.js                       (legacy flat-rate one)  *)
(*                                                                         *)
(* The calculators are pure functions.  Every exported function is an      *)
(* operator, and one action per entry point applies it to arguments drawn  *)
(* from bounded sets; the state records the call, its arguments and what   *)
(* it returned.                                                            *)
(*                                                                         *)
(* Money.  The source computes in IEEE doubles; the model computes the     *)
(* same expressions exactly, in integer multiples of 1/3000 of a cent, the *)
(* coarsest unit in which every rate, floor/12, floor/3, cap/12 and        *)
(* 0.00432 of a whole dollar of payroll is an integer.  A quotient by the  *)
(* head count is kept as a reduced fraction <<numerator, denominator>>.    *)
(*                                                                         *)
(* Raw form values.  A numeric form field is <<n>> when parseInt or        *)
(* parseFloat reads the number n from it and <<>> when the field is        *)
(* missing or not numeric (NaN).  A checkbox is "on", "true" (the boolean  *)
(* true) or "" (missing).  An enum field is its string, "" when missing.   *)
(***************************************************************************)
EXTENDS Integers, Sequences, FiniteSets, TLC

VARIABLES call, args, ret, pc

vars == <<call, args, ret, pc>>

(* ------------------------------ bounds -------------------------------- *)

\* employee counts entered in the form range over -MaxNeg .. MaxCount
MaxCount == 3
MaxNeg == 1
\* employeesOverNYSAWW ranges over -MaxNeg .. MaxOver
MaxOver == 1
\* the head count given to calculateQuoteWithEstimate ranges over -MaxNeg .. MaxTotal
MaxTotal == 5
\* the male ratios tried are 1/2 and k / RatioDen for k in 0 .. RatioDen
RatioDen == 4

(* ------------------------------- units -------------------------------- *)

Cent == 3 * 1000
Dollar == 100 * Cent

(* ---------------------------- reference data -------------------------- *)

TierOrder == <<"statutory", "enriched1.5x", "enriched2x", "enriched3x",
               "enriched4x", "enriched5x">>

Variants == {"male", "female", "maleWithHospital", "femaleWithHospital"}

Frequencies == {"annual", "quarterly"}

\* one (tier, frequency) row of the rate card, in cents per employee per month
Rates(m, f, mh, fh) ==
    [male |-> m, female |-> f, maleWithHospital |-> mh, femaleWithHospital |-> fh]

StatutoryRates ==
    [annual |-> Rates(150, 325, 165, 355),
     quarterly |-> Rates(185, 390, 195, 425)]

Enriched15xRates ==
    [annual |-> Rates(210, 435, 225, 475),
     quarterly |-> Rates(245, 525, 260, 570)]

Enriched2xRates ==
    [annual |-> Rates(255, 560, 275, 600),
     quarterly |-> Rates(315, 670, 330, 720)]

\* the enriched3x rows with a digit dropped from the quarterly female rate
\* (1.20 for 10.20)
Enriched3xRates_DroppedDigit ==
    [annual |-> Rates(390, 855, 415, 900),
     quarterly |-> Rates(475, 120, 495, 1075)]

Enriched3xRates ==
    [annual |-> Rates(390, 855, 415, 900),
     quarterly |-> Rates(475, 1020, 495, 1075)]

Enriched4xRates ==
    [annual |-> Rates(760, 1665, 840, 1715),
     quarterly |-> Rates(925, 1980, 945, 2040)]

Enriched5xRates ==
    [annual |-> Rates(975, 2140, 1080, 2190),
     quarterly |-> Rates(1190, 2550, 1210, 2605)]

DBL_RATES ==
    ("statutory" :> StatutoryRates) @@
    ("enriched1.5x" :> Enriched15xRates) @@
    ("enriched2x" :> Enriched2xRates) @@
    ("enriched3x" :> Enriched3xRates) @@
    ("enriched4x" :> Enriched4xRates) @@
    ("enriched5x" :> Enriched5xRates)

\* keys every JS object inherits from Object.prototype: DBL_RATES[key] is
\* truthy for them although the rate card has no such tier
ObjectPrototypeKeys == {"toString"}

\* percentOfPayroll 0.00432 of one whole dollar; annualCapPerEmployee 411.91
PFL_RATE ==
    [percentOfPayroll |-> (432 * Dollar) \div 100000,
     annualCapPerEmployee |-> 41191 * Cent]

MINIMUMS == [annualDBL |-> 125 * Dollar, quarterlyDBL |-> 35 * Dollar]

OPTIONAL_BENEFITS ==
    [addd50k |-> 100 * Cent,
     addd100k |-> 200 * Cent,
     termLife15k |-> (36 * Dollar) \div 12,
     eap |-> (36 * Dollar) \div 12,
     nurseHelpline |-> (54 * Dollar) \div 12]

(* ------------------------------ helpers ------------------------------- *)

Abs(n) == IF n < 0 THEN -n ELSE n

RECURSIVE GCD(_, _)
GCD(a, b) == IF b = 0 THEN a ELSE GCD(b, a % b)

\* the exact quotient n / d (d # 0) as a reduced fraction, sign on top
Quot(n, d) ==
    LET g == GCD(Abs(n), Abs(d))
        s == IF d < 0 THEN -1 ELSE 1
    IN <<(s * n) \div g, Abs(d) \div g>>

\* parseInt(v) || 0 and parseFloat(v) || 0 on a raw numeric form value
ParseOrZero(raw) == IF raw = <<>> THEN 0 ELSE raw[1]

\* v === 'on' || v === true
Checked(raw) == raw \in {"on", "true"}

\* Math.round(total * ratio) for ratio = num / den, den > 0:
\* floor(x + 1/2), ties towards +infinity
RoundProduct(total, ratio) ==
    (2 * total * ratio[1] + ratio[2]) \div (2 * ratio[2])

(* ------------------------- premium calculators ------------------------ *)

\* the tier and billing keys calculateDBLPremium looks the rate card up with
DBLTierKey(benefitTier) == IF benefitTier = "" THEN "statutory" ELSE benefitTier

DBLBillingKey(billingType) ==
    IF billingType = "quarterly" THEN "quarterly" ELSE "annual"

\* DBL_RATES[tier] is truthy but DBL_RATES[tier][billing] is undefined, so
\* reading rates.male raises a TypeError
calculateDBLPremiumThrows(benefitTier) ==
    DBLTierKey(benefitTier) \in ObjectPrototypeKeys

\* calculateDBLPremium with the In-Hospital rider flag ignored
calculateDBLPremium_NoRider(maleCount, femaleCount, benefitTier, billingType, includeHospital) ==
    LET tier == DBLTierKey(benefitTier)
        billing == DBLBillingKey(billingType)
    IN IF tier \notin DOMAIN DBL_RATES
       THEN 0
       ELSE LET rates == DBL_RATES[tier][billing]
            IN (maleCount * rates.male * Cent) + (femaleCount * rates.female * Cent)

\* monthly DBL premium (defined where calculateDBLPremiumThrows is false)
calculateDBLPremium(maleCount, femaleCount, benefitTier, billingType, includeHospital) ==
    LET tier == DBLTierKey(benefitTier)
        billing == DBLBillingKey(billingType)
    IN IF tier \notin DOMAIN DBL_RATES
       THEN 0
       ELSE LET rates == DBL_RATES[tier][billing]
            IN IF includeHospital
               THEN (maleCount * rates.maleWithHospital * Cent) +
                    (femaleCount * rates.femaleWithHospital * Cent)
               ELSE (maleCount * rates.male * Cent) +
                    (femaleCount * rates.female * Cent)

\* calculatePFLPremium charging the cap for every covered employee instead of
\* for the employees over the wage threshold
calculatePFLPremium_CapPerHead(employeesOverNYSAWW, payrollBelowNYSAWW, employeeCount) ==
    LET pflFromOverCap == employeeCount * PFL_RATE.annualCapPerEmployee
        payrollBelow == payrollBelowNYSAWW
        pflFromBelowCap == payrollBelow * PFL_RATE.percentOfPayroll
        annualPFL == pflFromOverCap + pflFromBelowCap
        totalEmployeeCount == employeeCount
    IN [annualTotal |-> annualPFL,
        monthlyTotal |-> annualPFL \div 12,
        annualPerEmployee |->
            IF totalEmployeeCount > 0
            THEN Quot(annualPFL, totalEmployeeCount) ELSE <<0, 1>>,
        monthlyPerEmployee |->
            IF totalEmployeeCount > 0
            THEN Quot(annualPFL \div 12, totalEmployeeCount) ELSE <<0, 1>>,
        breakdown |->
            [employeesOverCap |-> employeesOverNYSAWW,
             pflFromOverCap |-> pflFromOverCap,
             payrollBelowCap |-> payrollBelow,
             pflFromBelowCap |-> pflFromBelowCap]]

\* payrollBelowNYSAWW is in whole dollars
calculatePFLPremium(employeesOverNYSAWW, payrollBelowNYSAWW, employeeCount) ==
    LET pflFromOverCap == employeesOverNYSAWW * PFL_RATE.annualCapPerEmployee
        payrollBelow == payrollBelowNYSAWW
        pflFromBelowCap == payrollBelow * PFL_RATE.percentOfPayroll
        annualPFL == pflFromOverCap + pflFromBelowCap
        totalEmployeeCount == employeeCount
    IN [annualTotal |-> annualPFL,
        monthlyTotal |-> annualPFL \div 12,
        annualPerEmployee |->
            IF totalEmployeeCount > 0
            THEN Quot(annualPFL, totalEmployeeCount) ELSE <<0, 1>>,
        monthlyPerEmployee |->
            IF totalEmployeeCount > 0
            THEN Quot(annualPFL \div 12, totalEmployeeCount) ELSE <<0, 1>>,
        breakdown |->
            [employeesOverCap |-> employeesOverNYSAWW,
             pflFromOverCap |-> pflFromOverCap,
             payrollBelowCap |-> payrollBelow,
             pflFromBelowCap |-> pflFromBelowCap]]

\* selections: a record of five booleans
calculateOptionalBenefits(employeeCount, selections) ==
    (IF selections.termLife15k
        THEN employeeCount * OPTIONAL_BENEFITS.termLife15k ELSE 0) +
    (IF selections.eap
        THEN employeeCount * OPTIONAL_BENEFITS.eap ELSE 0) +
    (IF selections.nurseHelpline
        THEN employeeCount * OPTIONAL_BENEFITS.nurseHelpline ELSE 0) +
    (IF selections.addd50k
        THEN employeeCount * OPTIONAL_BENEFITS.addd50k ELSE 0) +
    (IF selections.addd100k
        THEN employeeCount * OPTIONAL_BENEFITS.addd100k ELSE 0)

\* applyMinimums with the quarterly floor spread over 12 months instead of 3
applyMinimums_QuarterlyOver12(monthlyPremium, billingType) ==
    IF billingType = "annual"
    THEN IF monthlyPremium * 12 < MINIMUMS.annualDBL
         THEN MINIMUMS.annualDBL \div 12
         ELSE monthlyPremium
    ELSE IF billingType = "quarterly"
    THEN IF monthlyPremium * 3 < MINIMUMS.quarterlyDBL
         THEN MINIMUMS.quarterlyDBL \div 12
         ELSE monthlyPremium
    ELSE monthlyPremium

applyMinimums(monthlyPremium, billingType) ==
    IF billingType = "annual"
    THEN IF monthlyPremium * 12 < MINIMUMS.annualDBL
         THEN MINIMUMS.annualDBL \div 12
         ELSE monthlyPremium
    ELSE IF billingType = "quarterly"
    THEN IF monthlyPremium * 3 < MINIMUMS.quarterlyDBL
         THEN MINIMUMS.quarterlyDBL \div 3
         ELSE monthlyPremium
    ELSE monthlyPremium

(* ----------------------------- the assembler -------------------------- *)

\* the object calculateQuote returns when there are no employees
ZeroQuote ==
    [dblMonthly |-> 0,
     pflMonthly |-> 0,
     optionalMonthly |-> 0,
     totalMonthly |-> 0,
     displayAmount |-> 0,
     billingPeriod |-> "year",
     breakdown |->
        [dblPremium |-> 0, pflPremium |-> 0, optionalCost |-> 0, totalCost |-> 0]]

\* an uncaught TypeError instead of a return value
TypeError == [threw |-> "TypeError"]

\* calculateQuote with the minimum floor applied to the sum of the three lines
\* instead of to the DBL line
calculateQuote_FloorOnTotal(formData) ==
    LET maleCount == ParseOrZero(formData.maleEmployees)
        femaleCount == ParseOrZero(formData.femaleEmployees)
        totalEmployees == maleCount + femaleCount
        benefitTier ==
            IF formData.dblBenefits = "" THEN "statutory" ELSE formData.dblBenefits
        billingType ==
            IF formData.billingOption = "" THEN "annual" ELSE formData.billingOption
        includeHospital == Checked(formData.inHospitalRider)
        dblRaw == calculateDBLPremium(maleCount, femaleCount, benefitTier,
                                      billingType, includeHospital)
        dblMonthly == dblRaw
        employeesOverNYSAWW == ParseOrZero(formData.employeesOverNYSAWW)
        payrollBelowNYSAWW == ParseOrZero(formData.payrollBelowNYSAWW)
        pfl == calculatePFLPremium(employeesOverNYSAWW, payrollBelowNYSAWW,
                                   totalEmployees)
        pflMonthly == pfl.monthlyTotal
        optionalSelections ==
            [termLife15k |-> Checked(formData.termLife15k),
             eap |-> Checked(formData.eap),
             nurseHelpline |-> Checked(formData.nurseHelpline),
             addd50k |-> formData.adddBenefit = "50000",
             addd100k |-> formData.adddBenefit = "100000"]
        optionalMonthly == calculateOptionalBenefits(totalEmployees, optionalSelections)
        totalMonthly ==
            applyMinimums(dblMonthly + pflMonthly + optionalMonthly, billingType)
        billingPeriod == IF billingType = "quarterly" THEN "quarter" ELSE "year"
        periodMultiplier == IF billingPeriod = "year" THEN 12 ELSE 3
        displayAmount == totalMonthly * periodMultiplier
    IN IF totalEmployees = 0
       THEN ZeroQuote
       ELSE IF calculateDBLPremiumThrows(benefitTier)
       THEN TypeError
       ELSE [dblMonthly |-> dblMonthly,
             pflMonthly |-> pflMonthly,
             optionalMonthly |-> optionalMonthly,
             totalMonthly |-> totalMonthly,
             displayAmount |-> displayAmount,
             billingPeriod |-> billingPeriod,
             periodMultiplier |-> periodMultiplier,
             breakdown |->
                [dblPremium |-> dblMonthly * periodMultiplier,
                 pflPremium |-> pflMonthly * periodMultiplier,
                 optionalCost |-> optionalMonthly * periodMultiplier,
                 totalCost |-> displayAmount],
             perEmployeeBreakdown |->
                [dblPerEmployee |-> Quot(dblMonthly, totalEmployees),
                 pflPerEmployee |-> Quot(pflMonthly, totalEmployees),
                 optionalPerEmployee |-> Quot(optionalMonthly, totalEmployees),
                 totalPerEmployee |-> Quot(totalMonthly, totalEmployees)],
             employeeInfo |->
                [male |-> maleCount, female |-> femaleCount, total |-> totalEmployees]]

calculateQuote(formData) ==
    LET maleCount == ParseOrZero(formData.maleEmployees)
        femaleCount == ParseOrZero(formData.femaleEmployees)
        totalEmployees == maleCount + femaleCount
        benefitTier ==
            IF formData.dblBenefits = "" THEN "statutory" ELSE formData.dblBenefits
        billingType ==
            IF formData.billingOption = "" THEN "annual" ELSE formData.billingOption
        includeHospital == Checked(formData.inHospitalRider)
        dblRaw == calculateDBLPremium(maleCount, femaleCount, benefitTier,
                                      billingType, includeHospital)
        dblMonthly == applyMinimums(dblRaw, billingType)
        employeesOverNYSAWW == ParseOrZero(formData.employeesOverNYSAWW)
        payrollBelowNYSAWW == ParseOrZero(formData.payrollBelowNYSAWW)
        pfl == calculatePFLPremium(employeesOverNYSAWW, payrollBelowNYSAWW,
                                   totalEmployees)
        pflMonthly == pfl.monthlyTotal
        optionalSelections ==
            [termLife15k |-> Checked(formData.termLife15k),
             eap |-> Checked(formData.eap),
             nurseHelpline |-> Checked(formData.nurseHelpline),
             addd50k |-> formData.adddBenefit = "50000",
             addd100k |-> formData.adddBenefit = "100000"]
        optionalMonthly == calculateOptionalBenefits(totalEmployees, optionalSelections)
        totalMonthly == dblMonthly + pflMonthly + optionalMonthly
        billingPeriod == IF billingType = "quarterly" THEN "quarter" ELSE "year"
        periodMultiplier == IF billingPeriod = "year" THEN 12 ELSE 3
        displayAmount == totalMonthly * periodMultiplier
    IN IF totalEmployees = 0
       THEN ZeroQuote
       ELSE IF calculateDBLPremiumThrows(benefitTier)
       THEN TypeError
       ELSE [dblMonthly |-> dblMonthly,
             pflMonthly |-> pflMonthly,
             optionalMonthly |-> optionalMonthly,
             totalMonthly |-> totalMonthly,
             displayAmount |-> displayAmount,
             billingPeriod |-> billingPeriod,
             periodMultiplier |-> periodMultiplier,
             breakdown |->
                [dblPremium |-> dblMonthly * periodMultiplier,
                 pflPremium |-> pflMonthly * periodMultiplier,
                 optionalCost |-> optionalMonthly * periodMultiplier,
                 totalCost |-> displayAmount],
             perEmployeeBreakdown |->
                [dblPerEmployee |-> Quot(dblMonthly, totalEmployees),
                 pflPerEmployee |-> Quot(pflMonthly, totalEmployees),
                 optionalPerEmployee |-> Quot(optionalMonthly, totalEmployees),
                 totalPerEmployee |-> Quot(totalMonthly, totalEmployees)],
             employeeInfo |->
                [male |-> maleCount, female |-> femaleCount, total |-> totalEmployees]]

\* a form with every field missing
EmptyForm ==
    [maleEmployees |-> <<>>, femaleEmployees |-> <<>>, totalEmployees |-> <<>>,
     dblBenefits |-> "", billingOption |-> "", inHospitalRider |-> "",
     employeesOverNYSAWW |-> <<>>, payrollBelowNYSAWW |-> <<>>,
     termLife15k |-> "", eap |-> "", nurseHelpline |-> "", adddBenefit |-> ""]

\* maleRatio is the fraction <<num, den>>
calculateQuoteWithEstimate(formData, maleRatio) ==
    LET totalEmployees == ParseOrZero(formData.totalEmployees)
        estimatedMales == RoundProduct(totalEmployees, maleRatio)
        estimatedFemales == totalEmployees - estimatedMales
        updatedFormData ==
            [formData EXCEPT !.maleEmployees = <<estimatedMales>>,
                             !.femaleEmployees = <<estimatedFemales>>]
        quote == calculateQuote(updatedFormData)
    IN IF totalEmployees = 0
       THEN calculateQuote([EmptyForm EXCEPT !.maleEmployees = <<0>>,
                                             !.femaleEmployees = <<0>>])
       ELSE IF quote = TypeError
       THEN TypeError
       ELSE quote @@
            [isEstimated |-> TRUE,
             estimatedGenderRatio |->
                [male |-> maleRatio,
                 female |-> <<maleRatio[2] - maleRatio[1], maleRatio[2]>>]]

(* ====================================================================== *)
(* The legacy flat-rate calculator, src/quote-calculator.js.  Its          *)
(* applyMinimums and calculateQuote carry the prefix Legacy here, since    *)
(* the NY calculator defines the same names.  Payroll is in whole dollars; *)
(* the DBL multipliers are in tenths.                                      *)
(* ====================================================================== *)

PRICING ==
    [baseRatePerEmployee |-> 50 * Dollar,
     statutoryMultiplier |-> 10,
     enriched1_5x |-> 15,
     enriched2x |-> 20,
     enriched3x |-> 30,
     enriched4x |-> 40,
     enriched5x |-> 50,
     inHospitalRider |-> 250 * Cent,
     addd50k |-> 125 * Cent,
     addd100k |-> 250 * Cent,
     termLife15k |-> 150 * Cent,
     eap |-> 75 * Cent,
     nurseHelpline |-> 50 * Cent,
     quarterlyFee |-> 15 * Dollar,
     annualMinimum |-> 125 * Dollar,
     quarterlyMinimum |-> 35 * Dollar,
     payrollRate |-> Cent \div 2]

\* the multiplier, in tenths
getDBLMultiplier(benefitValue) ==
    CASE benefitValue = "statutory" -> PRICING.statutoryMultiplier
      [] benefitValue = "enriched1.5x" -> PRICING.enriched1_5x
      [] benefitValue = "enriched2x" -> PRICING.enriched2x
      [] benefitValue = "enriched3x" -> PRICING.enriched3x
      [] benefitValue = "enriched4x" -> PRICING.enriched4x
      [] benefitValue = "enriched5x" -> PRICING.enriched5x
      [] OTHER -> PRICING.statutoryMultiplier

calculateBasePremium(totalEmployees, multiplier, billingType, totalPayroll) ==
    IF billingType = "quarterlyPayroll" /\ totalPayroll > 0
    THEN totalPayroll * PRICING.payrollRate
    ELSE (totalEmployees * PRICING.baseRatePerEmployee * multiplier) \div 10

\* adddBenefit is "50000", "100000" or "" (null)
calculateRidersCost(totalEmployees, inHospitalSelected, adddBenefit) ==
    (IF inHospitalSelected THEN totalEmployees * PRICING.inHospitalRider ELSE 0) +
    (IF adddBenefit = "50000" THEN totalEmployees * PRICING.addd50k
     ELSE IF adddBenefit = "100000" THEN totalEmployees * PRICING.addd100k
     ELSE 0)

calculateOptionalBenefitsCost(totalEmployees, termLifeSelected, eapSelected, nurseHelplineSelected) ==
    (IF termLifeSelected THEN totalEmployees * PRICING.termLife15k ELSE 0) +
    (IF eapSelected THEN totalEmployees * PRICING.eap ELSE 0) +
    (IF nurseHelplineSelected THEN totalEmployees * PRICING.nurseHelpline ELSE 0)

LegacyApplyMinimums(monthlyPremium, billingType) ==
    IF billingType = "annual"
    THEN IF monthlyPremium * 12 < PRICING.annualMinimum
         THEN PRICING.annualMinimum \div 12
         ELSE monthlyPremium
    ELSE IF billingType = "quarterly" \/ billingType = "quarterlyPayroll"
    THEN IF monthlyPremium * 3 < PRICING.quarterlyMinimum
         THEN PRICING.quarterlyMinimum \div 3
         ELSE monthlyPremium
    ELSE monthlyPremium

addBillingFees(monthlyPremium, billingType) ==
    IF billingType = "quarterly" \/ billingType = "quarterlyPayroll"
    THEN monthlyPremium + (PRICING.quarterlyFee \div 3)
    ELSE monthlyPremium

\* the object the legacy calculateQuote returns when there are no employees
LegacyZeroQuote ==
    [baseMonthlyPremium |-> 0,
     ridersMonthly |-> 0,
     optionalMonthly |-> 0,
     totalMonthly |-> 0,
     displayAmount |-> 0,
     billingPeriod |-> "year",
     breakdown |->
        [basePremium |-> 0, ridersCost |-> 0, optionalCost |-> 0, totalCost |-> 0]]

\* the legacy calculateQuote with the fee added before the minimum is applied
LegacyCalculateQuote_FeeBeforeFloor(formData) ==
    LET totalEmployees == ParseOrZero(formData.totalEmployees)
        multiplier ==
            getDBLMultiplier(IF formData.dblBenefits = "" THEN "statutory"
                             ELSE formData.dblBenefits)
        billingType ==
            IF formData.billingOption = "" THEN "annual" ELSE formData.billingOption
        billingPeriod ==
            IF billingType = "quarterly" \/ billingType = "quarterlyPayroll"
            THEN "quarter" ELSE "year"
        totalPayroll == ParseOrZero(formData.totalPayroll)
        baseMonthlyPremium ==
            calculateBasePremium(totalEmployees, multiplier, billingType, totalPayroll)
        ridersMonthly ==
            calculateRidersCost(totalEmployees, Checked(formData.inHospitalRider),
                                formData.addBenefit)
        optionalMonthly ==
            calculateOptionalBenefitsCost(totalEmployees,
                                          Checked(formData.termLife15k),
                                          Checked(formData.eap),
                                          Checked(formData.nurseHelpline))
        summed == baseMonthlyPremium + ridersMonthly + optionalMonthly
        withFee == addBillingFees(summed, billingType)
        totalMonthly == LegacyApplyMinimums(withFee, billingType)
        displayAmount ==
            IF billingPeriod = "year" THEN totalMonthly * 12 ELSE totalMonthly * 3
        periodMultiplier == IF billingPeriod = "year" THEN 12 ELSE 3
    IN IF totalEmployees = 0
       THEN LegacyZeroQuote
       ELSE [baseMonthlyPremium |-> baseMonthlyPremium,
             ridersMonthly |-> ridersMonthly,
             optionalMonthly |-> optionalMonthly,
             totalMonthly |-> totalMonthly,
             displayAmount |-> displayAmount,
             billingPeriod |-> billingPeriod,
             breakdown |->
                [basePremium |-> baseMonthlyPremium * periodMultiplier,
                 ridersCost |-> ridersMonthly * periodMultiplier,
                 optionalCost |-> optionalMonthly * periodMultiplier,
                 totalCost |-> displayAmount]]

LegacyCalculateQuote(formData) ==
    LET totalEmployees == ParseOrZero(formData.totalEmployees)
        multiplier ==
            getDBLMultiplier(IF formData.dblBenefits = "" THEN "statutory"
                             ELSE formData.dblBenefits)
        billingType ==
            IF formData.billingOption = "" THEN "annual" ELSE formData.billingOption
        billingPeriod ==
            IF billingType = "quarterly" \/ billingType = "quarterlyPayroll"
            THEN "quarter" ELSE "year"
        totalPayroll == ParseOrZero(formData.totalPayroll)
        baseMonthlyPremium ==
            calculateBasePremium(totalEmployees, multiplier, billingType, totalPayroll)
        ridersMonthly ==
            calculateRidersCost(totalEmployees, Checked(formData.inHospitalRider),
                                formData.addBenefit)
        optionalMonthly ==
            calculateOptionalBenefitsCost(totalEmployees,
                                          Checked(formData.termLife15k),
                                          Checked(formData.eap),
                                          Checked(formData.nurseHelpline))
        summed == baseMonthlyPremium + ridersMonthly + optionalMonthly
        floored == LegacyApplyMinimums(summed, billingType)
        totalMonthly == addBillingFees(floored, billingType)
        displayAmount ==
            IF billingPeriod = "year" THEN totalMonthly * 12 ELSE totalMonthly * 3
        periodMultiplier == IF billingPeriod = "year" THEN 12 ELSE 3
    IN IF totalEmployees = 0
       THEN LegacyZeroQuote
       ELSE [baseMonthlyPremium |-> baseMonthlyPremium,
             ridersMonthly |-> ridersMonthly,
             optionalMonthly |-> optionalMonthly,
             totalMonthly |-> totalMonthly,
             displayAmount |-> displayAmount,
             billingPeriod |-> billingPeriod,
             breakdown |->
                [basePremium |-> baseMonthlyPremium * periodMultiplier,
                 ridersCost |-> ridersMonthly * periodMultiplier,
                 optionalCost |-> optionalMonthly * periodMultiplier,
                 totalCost |-> displayAmount]]

(* ------------------------------- inputs ------------------------------- *)

TierInputs ==
    {TierOrder[i] : i \in 1..Len(TierOrder)} \cup {"", "platinum", "toString"}

BillingInputs == {"annual", "quarterly", "quarterlyPayroll", ""}

CheckboxInputs == {"", "on"}

AdddInputs == {"", "50000", "100000"}

CountInputs == {<<n>> : n \in (0 - MaxNeg)..MaxCount}

OverInputs == {<<n>> : n \in (0 - MaxNeg)..MaxOver}

\* whole dollars of payroll below the wage threshold
PayrollInputs == {<<>>, <<500000>>, <<0 - 25000>>}

\* termLife15k, eap, nurseHelpline and adddBenefit as the form sends them
OptionalInputs ==
    {<<"", "", "", "">>, <<"on", "", "", "50000">>,
     <<"", "true", "on", "100000">>, <<"on", "on", "true", "">>}

QuoteForms ==
    {[EmptyForm EXCEPT !.maleEmployees = m, !.femaleEmployees = f,
                       !.dblBenefits = t, !.billingOption = b,
                       !.inHospitalRider = h, !.employeesOverNYSAWW = o,
                       !.payrollBelowNYSAWW = p, !.termLife15k = opt[1],
                       !.eap = opt[2], !.nurseHelpline = opt[3],
                       !.adddBenefit = opt[4]] :
        m \in CountInputs \cup {<<>>}, f \in CountInputs, t \in TierInputs,
        b \in BillingInputs, h \in CheckboxInputs, o \in OverInputs,
        p \in PayrollInputs, opt \in OptionalInputs}

\* forms for calculateQuoteWithEstimate: a head count, and possibly a stale
\* gender split left in the form
EstimateForms ==
    {[EmptyForm EXCEPT !.totalEmployees = n, !.maleEmployees = m,
                       !.dblBenefits = t, !.billingOption = b,
                       !.inHospitalRider = h, !.employeesOverNYSAWW = o,
                       !.eap = e] :
        n \in {<<k>> : k \in (0 - MaxNeg)..MaxTotal} \cup {<<>>},
        m \in {<<>>, <<1>>}, t \in {"statutory", "enriched5x", "toString"},
        b \in {"annual", "quarterly"}, h \in {"", "true"},
        o \in {<<>>, <<1>>}, e \in {"", "on"}}

RatioInputs == {<<1, 2>>} \cup {<<k, RatioDen>> : k \in 0..RatioDen}

\* whole dollars of payroll given to calculatePFLPremium directly
PayrollArgs == {0, 25, 500000, 0 - 25000}

SelectionArgs ==
    [termLife15k : BOOLEAN, eap : BOOLEAN, nurseHelpline : BOOLEAN,
     addd50k : BOOLEAN, addd100k : BOOLEAN]

\* forms for the legacy calculator: totalPayroll in whole dollars a month
LegacyForms ==
    [totalEmployees : {<<n>> : n \in (0 - MaxNeg)..MaxCount} \cup {<<>>},
     dblBenefits : {"statutory", "enriched1.5x", "enriched2x", "platinum", ""},
     billingOption : {"annual", "quarterly", "quarterlyPayroll", "monthly", ""},
     totalPayroll : {<<>>, <<100>>, <<1000>>, <<50000>>},
     inHospitalRider : {"", "on"},
     addBenefit : {"", "50000", "100000"},
     termLife15k : {"", "on"},
     eap : {"", "true"},
     nurseHelpline : {"", "on"}]

(* ---------------------------- state machine --------------------------- *)

Init ==
    /\ call = "none"
    /\ args = <<>>
    /\ ret = [none |-> TRUE]
    /\ pc = "idle"

Outcome(result) == IF result = TypeError THEN "threw" ELSE "returned"

CalculateQuote ==
    /\ pc = "idle"
    /\ \E formData \in QuoteForms :
          /\ call' = "calculateQuote"
          /\ args' = <<formData>>
          /\ ret' = calculateQuote(formData)
          /\ pc' = Outcome(calculateQuote(formData))

CalculateQuoteWithEstimate ==
    /\ pc = "idle"
    /\ \E formData \in EstimateForms, maleRatio \in RatioInputs :
          /\ call' = "calculateQuoteWithEstimate"
          /\ args' = <<formData, maleRatio>>
          /\ ret' = calculateQuoteWithEstimate(formData, maleRatio)
          /\ pc' = Outcome(calculateQuoteWithEstimate(formData, maleRatio))

CalculateDBLPremium ==
    /\ pc = "idle"
    /\ \E maleCount \in 0..MaxCount, femaleCount \in 0..MaxCount,
          benefitTier \in TierInputs, billingType \in BillingInputs,
          includeHospital \in BOOLEAN :
          /\ call' = "calculateDBLPremium"
          /\ args' = <<maleCount, femaleCount, benefitTier, billingType,
                       includeHospital>>
          /\ IF calculateDBLPremiumThrows(benefitTier)
             THEN ret' = TypeError /\ pc' = "threw"
             ELSE /\ ret' = calculateDBLPremium(maleCount, femaleCount, benefitTier,
                                                billingType, includeHospital)
                  /\ pc' = "returned"

CalculatePFLPremium ==
    /\ pc = "idle"
    /\ \E employeesOverNYSAWW \in (0 - MaxNeg)..MaxOver,
          payrollBelowNYSAWW \in PayrollArgs,
          employeeCount \in 0..MaxCount :
          /\ call' = "calculatePFLPremium"
          /\ args' = <<employeesOverNYSAWW, payrollBelowNYSAWW, employeeCount>>
          /\ ret' = calculatePFLPremium(employeesOverNYSAWW, payrollBelowNYSAWW,
                                        employeeCount)
          /\ pc' = "returned"

CalculateOptionalBenefits ==
    /\ pc = "idle"
    /\ \E employeeCount \in 0..MaxCount, selections \in SelectionArgs :
          /\ call' = "calculateOptionalBenefits"
          /\ args' = <<employeeCount, selections>>
          /\ ret' = calculateOptionalBenefits(employeeCount, selections)
          /\ pc' = "returned"

LegacyQuote ==
    /\ pc = "idle"
    /\ \E formData \in LegacyForms :
          /\ call' = "legacy.calculateQuote"
          /\ args' = <<formData>>
          /\ ret' = LegacyCalculateQuote(formData)
          /\ pc' = "returned"

Next ==
    \/ CalculateQuote
    \/ LegacyQuote
    \/ CalculateQuoteWithEstimate
    \/ CalculateDBLPremium
    \/ CalculatePFLPremium
    \/ CalculateOptionalBenefits

Spec == Init /\ [][Next]_vars

(* ======================= properties of the calculators ================ *)

RecognizedTiers == {TierOrder[i] : i \in 1..Len(TierOrder)}

\* a call of calculateQuote has ended, by a return or by a throw
QuoteCalled == call = "calculateQuote"

QuoteReturned == call = "calculateQuote" /\ pc = "returned"

\* what the normalisation of calculateQuote reads from its argument
ArgMale == ParseOrZero(args[1].maleEmployees)
ArgFemale == ParseOrZero(args[1].femaleEmployees)
ArgTotal == ArgMale + ArgFemale
ArgTier == args[1].dblBenefits
ArgBilling == args[1].billingOption
ArgHospital == Checked(args[1].inHospitalRider)
ArgOver == ParseOrZero(args[1].employeesOverNYSAWW)
ArgPayroll == ParseOrZero(args[1].payrollBelowNYSAWW)

\* no negative number in the form
ArgsNonNegative == ArgMale >= 0 /\ ArgFemale >= 0 /\ ArgOver >= 0 /\ ArgPayroll >= 0

\* the period length and the DBL floor of a billing selection
PeriodMonths(billing) == IF billing = "quarterly" THEN 3 ELSE 12
FloorOf(billing) == IF billing = "quarterly" THEN 35 * Dollar ELSE 125 * Dollar

(* ---------------------------------------------------------------------- *)
(* C1: with at least one covered employee, a recognized tier and billing   *)
(* 'annual' (resp. 'quarterly'), the period-scaled DBL line                *)
(* breakdown.dblPremium is at least $125 (resp. $35), and is exactly that  *)
(* floor whenever the raw DBL premium scaled to the period is below it;    *)
(* statutory, annual, 1 male and 0 female gives exactly $125.00.           *)
(* ---------------------------------------------------------------------- *)
C1_DBLFloor ==
    (/\ QuoteReturned
     /\ ArgTotal >= 1
     /\ ArgTier \in RecognizedTiers
     /\ ArgBilling \in {"annual", "quarterly"})
    => LET rawPeriod ==
               calculateDBLPremium(ArgMale, ArgFemale, ArgTier, ArgBilling,
                                   ArgHospital) * PeriodMonths(ArgBilling)
       IN /\ ret.breakdown.dblPremium >= FloorOf(ArgBilling)
          /\ rawPeriod < FloorOf(ArgBilling)
                => ret.breakdown.dblPremium = FloorOf(ArgBilling)
          /\ (/\ ArgTier = "statutory" /\ ArgBilling = "annual"
              /\ ArgMale = 1 /\ ArgFemale = 0)
                => ret.breakdown.dblPremium = 125 * Dollar

\* statutory, annual, one male: raw $18 a year, billed $125
C1_Witness ==
    /\ QuoteReturned
    /\ ArgTier = "statutory" /\ ArgBilling = "annual"
    /\ ArgMale = 1 /\ ArgFemale = 0 /\ ~ArgHospital
    /\ calculateDBLPremium(1, 0, "statutory", "annual", FALSE) * 12 = 18 * Dollar
    /\ ret.breakdown.dblPremium = 125 * Dollar

(* ---------------------------------------------------------------------- *)
(* C2: when the male and female counts are both 0, every monetary field of *)
(* the result is 0 and billingPeriod follows the billing selection:        *)
(* 'quarter' for 'quarterly', 'year' for 'annual'.  Stated for forms that  *)
(* hold no negative number.                                                *)
(* ---------------------------------------------------------------------- *)
C2_ZeroQuoteFollowsBilling ==
    (QuoteCalled /\ ArgsNonNegative /\ ArgMale = 0 /\ ArgFemale = 0)
    => /\ pc = "returned"
       /\ ret.dblMonthly = 0 /\ ret.pflMonthly = 0 /\ ret.optionalMonthly = 0
       /\ ret.totalMonthly = 0 /\ ret.displayAmount = 0
       /\ ret.breakdown.dblPremium = 0 /\ ret.breakdown.pflPremium = 0
       /\ ret.breakdown.optionalCost = 0 /\ ret.breakdown.totalCost = 0
       /\ ArgBilling = "quarterly" => ret.billingPeriod = "quarter"
       /\ ArgBilling = "annual" => ret.billingPeriod = "year"

\* the same form with one field replaced
WithHospital(form, v) == [form EXCEPT !.inHospitalRider = v]
WithTier(form, v) == [form EXCEPT !.dblBenefits = v]
WithBilling(form, v) == [form EXCEPT !.billingOption = v]

(* ---------------------------------------------------------------------- *)
(* C3 as stated: for every tier, billing frequency and fixed counts with   *)
(* at least one employee, dblMonthly with the hospital rider enabled is    *)
(* strictly greater than dblMonthly of the same input with it disabled.    *)
(* Stated for the six recognized tiers and forms that hold no negative     *)
(* number.                                                                 *)
(* ---------------------------------------------------------------------- *)
C3_RiderStrictlyIncreases ==
    (/\ QuoteReturned
     /\ ArgsNonNegative /\ ArgTotal >= 1
     /\ ArgTier \in RecognizedTiers
     /\ ArgHospital)
    => ret.dblMonthly > calculateQuote(WithHospital(args[1], "")).dblMonthly

(* ---------------------------------------------------------------------- *)
(* C3 amended: for a recognized tier and non-negative counts with at least *)
(* one employee, dblMonthly with the rider enabled is never below          *)
(* dblMonthly with it disabled; it is strictly greater unless the          *)
(* rider-enabled raw premium scaled to the period is below the minimum     *)
(* floor of an 'annual' or 'quarterly' billing, and then both equal the    *)
(* floor.                                                                  *)
(* ---------------------------------------------------------------------- *)
C3_RiderIncreasesAboveFloor ==
    (/\ QuoteReturned
     /\ ArgMale >= 0 /\ ArgFemale >= 0 /\ ArgTotal >= 1
     /\ ArgTier \in RecognizedTiers
     /\ ArgHospital)
    => LET with == ret.dblMonthly
           without == calculateQuote(WithHospital(args[1], "")).dblMonthly
           billing == IF ArgBilling = "" THEN "annual" ELSE ArgBilling
           rawWith == calculateDBLPremium(ArgMale, ArgFemale, ArgTier, billing, TRUE)
           floored == /\ billing \in {"annual", "quarterly"}
                      /\ rawWith * PeriodMonths(billing) < FloorOf(billing)
       IN /\ with >= without
          /\ floored => (with = without
                         /\ with * PeriodMonths(billing) = FloorOf(billing))
          /\ ~floored => with > without

\* rider on, one male and three females on the statutory annual card: $147.60
\* a year with the rider against $135.00 without, both above the floor
C3_Witness ==
    /\ QuoteReturned
    /\ ArgHospital /\ ArgTier = "statutory" /\ ArgBilling = "annual"
    /\ ArgMale = 1 /\ ArgFemale = 3
    /\ ret.dblMonthly * 12 = 14760 * Cent
    /\ calculateQuote(WithHospital(args[1], "")).dblMonthly * 12 = 135 * Dollar

(* ---------------------------------------------------------------------- *)
(* C4: every result calculateQuote returns, the zero-employee result       *)
(* included, has displayAmount = totalMonthly * periodMultiplier, with     *)
(* periodMultiplier present, 12 exactly when billingPeriod is 'year' and   *)
(* 3 exactly when it is 'quarter'.  Stated for forms that hold no negative *)
(* number.                                                                 *)
(* ---------------------------------------------------------------------- *)
C4_PeriodScaling ==
    (QuoteReturned /\ ArgsNonNegative)
    => /\ "periodMultiplier" \in DOMAIN ret
       /\ ret.displayAmount = ret.totalMonthly * ret.periodMultiplier
       /\ ret.periodMultiplier \in {3, 12}
       /\ ret.billingPeriod \in {"quarter", "year"}
       /\ ret.periodMultiplier = 12 <=> ret.billingPeriod = "year"
       /\ ret.periodMultiplier = 3 <=> ret.billingPeriod = "quarter"

(* ---------------------------------------------------------------------- *)
(* C5: when the benefit tier is not one of the six recognized codes, the   *)
(* result is that of the same input with tier 'statutory', and no error is *)
(* raised.  Stated for forms that hold no negative number.                 *)
(* ---------------------------------------------------------------------- *)
C5_UnknownTierIsStatutory ==
    (QuoteCalled /\ ArgsNonNegative /\ ArgTier \notin RecognizedTiers)
    => /\ pc = "returned"
       /\ ret = calculateQuote(WithTier(args[1], "statutory"))

(* ---------------------------------------------------------------------- *)
(* C6: when the billing frequency is neither 'annual' nor 'quarterly', the *)
(* result is that of the same input with billing 'annual'.  Stated for     *)
(* forms that hold no negative number.                                     *)
(* ---------------------------------------------------------------------- *)
C6_UnknownBillingIsAnnual ==
    (QuoteCalled /\ ArgsNonNegative /\ ArgBilling \notin {"annual", "quarterly"})
    => ret = calculateQuote(WithBilling(args[1], "annual"))

(* ---------------------------------------------------------------------- *)
(* C7: normalisation clamps negative counts, payroll and over-threshold    *)
(* counts to zero, so no monetary field of any result is negative.         *)
(* ---------------------------------------------------------------------- *)
C7_NoNegativeMoney ==
    QuoteReturned
    => /\ ret.dblMonthly >= 0 /\ ret.pflMonthly >= 0 /\ ret.optionalMonthly >= 0
       /\ ret.totalMonthly >= 0 /\ ret.displayAmount >= 0
       /\ ret.breakdown.dblPremium >= 0 /\ ret.breakdown.pflPremium >= 0
       /\ ret.breakdown.optionalCost >= 0 /\ ret.breakdown.totalCost >= 0
       /\ "perEmployeeBreakdown" \in DOMAIN ret
            => /\ ret.perEmployeeBreakdown.dblPerEmployee[1] >= 0
               /\ ret.perEmployeeBreakdown.pflPerEmployee[1] >= 0
               /\ ret.perEmployeeBreakdown.optionalPerEmployee[1] >= 0
               /\ ret.perEmployeeBreakdown.totalPerEmployee[1] >= 0

\* annual PFL in money units: over * $411.91 + payroll * 0.00432, where
\* 0.00432 of a dollar is 432 thousandths of a cent
AnnualPFL(over, payroll) == over * 41191 * Cent + payroll * 432 * (Cent \div 1000)

PFLCalled == call = "calculatePFLPremium" /\ pc = "returned"

\* what C8 says of a direct call of calculatePFLPremium
C8_DirectCall ==
    (PFLCalled /\ args[1] >= 0 /\ args[2] >= 0)
    => /\ ret.annualTotal = AnnualPFL(args[1], args[2])
       /\ ret.monthlyTotal * 12 = ret.annualTotal
       /\ (args[1] = 0 /\ args[2] = 500000) => ret.annualTotal = 2160 * Dollar
       /\ (args[1] = 1 /\ args[2] = 0) => ret.annualTotal = 41191 * Cent

(* ---------------------------------------------------------------------- *)
(* C8 as stated: for all non-negative employeesOverThreshold and           *)
(* payrollBelowThreshold, calculatePFLPremium returns annualTotal =        *)
(* over * 411.91 + payroll * 0.00432 and monthlyTotal = annualTotal / 12,  *)
(* and calculateQuote's pflMonthly equals that monthlyTotal.               *)
(* ---------------------------------------------------------------------- *)
C8_PFLFormulaEveryQuote ==
    /\ C8_DirectCall
    /\ (QuoteReturned /\ ArgsNonNegative)
       => ret.pflMonthly * 12 = AnnualPFL(ArgOver, ArgPayroll)

(* ---------------------------------------------------------------------- *)
(* C8 amended: calculatePFLPremium is as stated, and calculateQuote's      *)
(* pflMonthly equals that monthlyTotal whenever the head count is not      *)
(* zero and a quote is returned; with a head count of zero pflMonthly is   *)
(* 0 whatever the PFL figures are.                                         *)
(* ---------------------------------------------------------------------- *)
C8_PFLFormulaNonEmptyQuote ==
    /\ C8_DirectCall
    /\ (QuoteReturned /\ ArgsNonNegative /\ ArgTotal # 0)
       => /\ ret.pflMonthly * 12 = AnnualPFL(ArgOver, ArgPayroll)
          /\ ret.pflMonthly =
                calculatePFLPremium(ArgOver, ArgPayroll, ArgTotal).monthlyTotal
    /\ (QuoteReturned /\ ArgTotal = 0) => ret.pflMonthly = 0

\* one employee over the threshold and $500,000 of payroll below it:
\* $2,571.91 a year
C8_Witness ==
    /\ QuoteReturned
    /\ ArgTotal >= 1 /\ ArgOver = 1 /\ ArgPayroll = 500000
    /\ ret.pflMonthly * 12 = 2160 * Dollar + 41191 * Cent

(* ---------------------------------------------------------------------- *)
(* C9: calculateQuoteWithEstimate(formData, ratio), for every head count   *)
(* (0 included) and every ratio in [0, 1], returns calculateQuote of the   *)
(* same form with maleEmployees = round(total * ratio) and femaleEmployees *)
(* = total - maleEmployees, both non-negative, tagged isEstimated.         *)
(* ---------------------------------------------------------------------- *)
C9_EstimateDelegatesAndTags ==
    (/\ call = "calculateQuoteWithEstimate" /\ pc = "returned"
     /\ ParseOrZero(args[1].totalEmployees) >= 0)
    => LET total == ParseOrZero(args[1].totalEmployees)
           ratio == args[2]
           males == CHOOSE k \in 0..total :
                       /\ 2 * ratio[2] * k <= 2 * total * ratio[1] + ratio[2]
                       /\ 2 * total * ratio[1] + ratio[2] < 2 * ratio[2] * (k + 1)
           females == total - males
           quote == calculateQuote([args[1] EXCEPT !.maleEmployees = <<males>>,
                                                   !.femaleEmployees = <<females>>])
       IN /\ males >= 0 /\ females >= 0 /\ males + females = total
          /\ \A k \in DOMAIN quote : k \in DOMAIN ret /\ ret[k] = quote[k]
          /\ "isEstimated" \in DOMAIN ret
          /\ ret.isEstimated = TRUE

(* ---------------------------------------------------------------------- *)
(* C10: in DBL_RATES, for each billing frequency and each of the four      *)
(* variants, the unit rate is defined and non-negative for all six tiers   *)
(* and non-decreasing along statutory, enriched1.5x, enriched2x,           *)
(* enriched3x, enriched4x, enriched5x; calculateDBLPremium for a single    *)
(* employee returns that unit rate.                                        *)
(* ---------------------------------------------------------------------- *)
C10_RatesMonotoneInTier ==
    /\ \A i \in 1..Len(TierOrder) : \A freq \in Frequencies : \A v \in Variants :
          /\ TierOrder[i] \in DOMAIN DBL_RATES
          /\ freq \in DOMAIN DBL_RATES[TierOrder[i]]
          /\ v \in DOMAIN DBL_RATES[TierOrder[i]][freq]
          /\ DBL_RATES[TierOrder[i]][freq][v] >= 0
          /\ i < Len(TierOrder)
                => DBL_RATES[TierOrder[i]][freq][v]
                      <= DBL_RATES[TierOrder[i + 1]][freq][v]
    /\ (/\ call = "calculateDBLPremium" /\ pc = "returned"
        /\ args[1] + args[2] = 1
        /\ args[3] \in RecognizedTiers
        /\ args[4] \in Frequencies)
       => LET v == IF args[1] = 1
                   THEN (IF args[5] THEN "maleWithHospital" ELSE "male")
                   ELSE (IF args[5] THEN "femaleWithHospital" ELSE "female")
              i == CHOOSE j \in 1..Len(TierOrder) : TierOrder[j] = args[3]
          IN /\ ret = DBL_RATES[args[3]][args[4]][v] * Cent
             /\ ret >= 0
             /\ i < Len(TierOrder)
                   => ret <= calculateDBLPremium(args[1], args[2], TierOrder[i + 1],
                                                 args[4], args[5])

\* the quarterly rate of one female with the rider on the enriched3x card,
\* $10.75, between the enriched2x rate $7.20 and the enriched4x rate $20.40
C10_Witness ==
    /\ call = "calculateDBLPremium" /\ pc = "returned"
    /\ args = <<0, 1, "enriched3x", "quarterly", TRUE>>
    /\ ret = 1075 * Cent
    /\ calculateDBLPremium(0, 1, "enriched2x", "quarterly", TRUE) = 720 * Cent
    /\ calculateDBLPremium(0, 1, "enriched4x", "quarterly", TRUE) = 2040 * Cent

(* ---------------------------------------------------------------------- *)
(* C11: with quarterly billing and at least one employee, a flat quarterly *)
(* installment fee is added after the minimum check: displayAmount is the  *)
(* floored DBL quarter premium plus the PFL and optional quarter amounts   *)
(* plus the installment fee, a positive amount.  Stated for the six        *)
(* recognized tiers and forms that hold no negative number.                *)
(* ---------------------------------------------------------------------- *)
C11_QuarterlyFeeAdded ==
    (/\ QuoteReturned
     /\ ArgsNonNegative /\ ArgTotal >= 1
     /\ ArgTier \in RecognizedTiers
     /\ ArgBilling = "quarterly")
    => LET rawQuarter ==
               calculateDBLPremium(ArgMale, ArgFemale, ArgTier, "quarterly",
                                   ArgHospital) * 3
           dblQuarter ==
               IF rawQuarter < 35 * Dollar THEN 35 * Dollar ELSE rawQuarter
           fee == ret.displayAmount
                     - (dblQuarter + ret.pflMonthly * 3 + ret.optionalMonthly * 3)
       IN fee > 0

\* the monthly unit cost of the optional benefits a form selects:
\* term life $3.00, EAP $3.00, nurse helpline $4.50, AD&D $1.00 or $2.00
SelectedUnitCost(form) ==
    (IF Checked(form.termLife15k) THEN 300 * Cent ELSE 0) +
    (IF Checked(form.eap) THEN 300 * Cent ELSE 0) +
    (IF Checked(form.nurseHelpline) THEN 450 * Cent ELSE 0) +
    (IF form.adddBenefit = "50000" THEN 100 * Cent ELSE 0) +
    (IF form.adddBenefit = "100000" THEN 200 * Cent ELSE 0)

(* ---------------------------------------------------------------------- *)
(* C12: the minimum floor is applied to the DBL line only.  For every      *)
(* input with at least one employee, pflMonthly and optionalMonthly are    *)
(* the unadjusted calculator outputs whether or not the DBL floor fires,   *)
(* the total is the plain sum of the three lines with no floor of its own, *)
(* and whenever the raw DBL premium is below the floor the period total is *)
(* the floor plus the full PFL and optional period amounts.                *)
(* ---------------------------------------------------------------------- *)
C12_FloorOnDBLOnly ==
    (QuoteReturned /\ ArgTotal >= 1)
    => LET billing == IF ArgBilling = "" THEN "annual" ELSE ArgBilling
           months == PeriodMonths(billing)
           raw == calculateDBLPremium(ArgMale, ArgFemale, ArgTier, billing,
                                      ArgHospital)
           floorFires == /\ billing \in {"annual", "quarterly"}
                         /\ raw * months < FloorOf(billing)
           pflPeriod == (AnnualPFL(ArgOver, ArgPayroll) \div 12) * months
           optionalPeriod == ArgTotal * SelectedUnitCost(args[1]) * months
       IN /\ ret.pflMonthly * 12 = AnnualPFL(ArgOver, ArgPayroll)
          /\ ret.pflMonthly =
                calculatePFLPremium(ArgOver, ArgPayroll, ArgTotal).monthlyTotal
          /\ ret.optionalMonthly = ArgTotal * SelectedUnitCost(args[1])
          /\ ret.totalMonthly =
                ret.dblMonthly + ret.pflMonthly + ret.optionalMonthly
          /\ ret.displayAmount = ret.totalMonthly * months
          /\ floorFires
                => ret.displayAmount = FloorOf(billing) + pflPeriod + optionalPeriod
          /\ ~floorFires
                => ret.displayAmount = raw * months + pflPeriod + optionalPeriod

\* one male on the statutory annual card (raw $18.00), one employee over the
\* threshold, term life and AD&D 50k: $125.00 + $411.91 + $48.00 a year
C12_Witness ==
    /\ QuoteReturned
    /\ ArgMale = 1 /\ ArgFemale = 0
    /\ ArgTier = "statutory" /\ ArgBilling = "annual" /\ ~ArgHospital
    /\ ArgOver = 1 /\ ArgPayroll = 0
    /\ SelectedUnitCost(args[1]) = 4 * Dollar
    /\ ret.breakdown.dblPremium = 125 * Dollar
    /\ ret.breakdown.pflPremium = 41191 * Cent
    /\ ret.breakdown.optionalCost = 48 * Dollar
    /\ ret.displayAmount = 125 * Dollar + 41191 * Cent + 48 * Dollar

\* the part of a direct calculateOptionalBenefits result that is AD&D cost:
\* what is left after the three baseline benefits selected
AdddPart(employeeCount, selections, total) ==
    total - employeeCount *
              ((IF selections.termLife15k THEN 300 * Cent ELSE 0) +
               (IF selections.eap THEN 300 * Cent ELSE 0) +
               (IF selections.nurseHelpline THEN 450 * Cent ELSE 0))

(* ---------------------------------------------------------------------- *)
(* C14: the optional line is the monthly sum of employeeCount * unitCost   *)
(* over every selected benefit code, and the two AD&D tiers are mutually   *)
(* exclusive: for every input of calculateQuote and every selections       *)
(* object passed to calculateOptionalBenefits, at most one of the addd50k  *)
(* ($1.00) and addd100k ($2.00) unit costs is in the optional line.        *)
(* Stated for non-negative head counts.                                    *)
(* ---------------------------------------------------------------------- *)
C14_AdddExclusive ==
    /\ (QuoteReturned /\ ArgsNonNegative /\ ArgTotal >= 1)
       => /\ ret.optionalMonthly = ArgTotal * SelectedUnitCost(args[1])
          /\ ret.optionalMonthly
                - ArgTotal * SelectedUnitCost([args[1] EXCEPT !.adddBenefit = ""])
                \in {0, ArgTotal * 100 * Cent, ArgTotal * 200 * Cent}
    /\ (call = "calculateOptionalBenefits" /\ pc = "returned")
       => AdddPart(args[1], args[2], ret)
             \in {0, args[1] * 100 * Cent, args[1] * 200 * Cent}

(* ---------------------------------------------------------------------- *)
(* C13  Legacy calculator: the minimum is applied to the grand total and   *)
(* the quarterly fee is added afterwards.  For every legacy calculateQuote *)
(* call with at least one employee: with billing 'quarterly' or            *)
(* 'quarterlyPayroll', displayAmount is the larger of three times the      *)
(* monthly base + riders + optional and $35, plus the $15 fee; with        *)
(* billing 'annual' (an empty billingOption included), displayAmount is    *)
(* the larger of twelve times that sum and $125, with no fee.  Amounts are *)
(* exact here; the code's doubles agree with them to the last bit or two.  *)
(* ---------------------------------------------------------------------- *)
LegacyReturned == call = "legacy.calculateQuote" /\ pc = "returned"

LegacyArgTotal == ParseOrZero(args[1].totalEmployees)

LegacyArgBilling ==
    IF args[1].billingOption = "" THEN "annual" ELSE args[1].billingOption

C13_LegacyFloorThenFee ==
    (LegacyReturned /\ LegacyArgTotal >= 1)
    => LET lines == ret.baseMonthlyPremium + ret.ridersMonthly + ret.optionalMonthly
       IN /\ LegacyArgBilling \in {"quarterly", "quarterlyPayroll"}
             => ret.displayAmount =
                  (IF lines * 3 < 35 * Dollar THEN 35 * Dollar ELSE lines * 3)
                  + 15 * Dollar
          /\ LegacyArgBilling = "annual"
             => ret.displayAmount =
                  (IF lines * 12 < 125 * Dollar THEN 125 * Dollar ELSE lines * 12)

\* one employee billed on a $100 monthly payroll: $1.50 a quarter, floored
\* to $35, then the $15 fee
C13_Witness ==
    /\ LegacyReturned
    /\ LegacyArgTotal = 1
    /\ LegacyArgBilling = "quarterlyPayroll"
    /\ args[1].totalPayroll = <<100>>
    /\ ret.baseMonthlyPremium * 3 = 150 * Cent
    /\ ret.ridersMonthly = 0
    /\ ret.optionalMonthly = 0
    /\ ret.displayAmount = 50 * Dollar

(* ---------------------------------------------------------------------- *)
(* Two calls of calculateQuote on forms that differ in head count only.    *)
(* The state holds both arguments and both results.                        *)
(* ---------------------------------------------------------------------- *)

\* forms with non-negative counts for the comparison
PairForms ==
    {[EmptyForm EXCEPT !.maleEmployees = <<m>>, !.femaleEmployees = <<f>>,
                       !.dblBenefits = t, !.billingOption = b,
                       !.inHospitalRider = h, !.employeesOverNYSAWW = o,
                       !.payrollBelowNYSAWW = p, !.termLife15k = opt[1],
                       !.eap = opt[2], !.nurseHelpline = opt[3],
                       !.adddBenefit = opt[4]] :
        m \in 0..MaxCount, f \in 0..MaxCount,
        t \in {"statutory", "enriched5x", "platinum", "toString"},
        b \in BillingInputs, h \in CheckboxInputs, o \in {<<>>, <<1>>},
        p \in PayrollInputs,
        opt \in {<<"", "", "", "">>, <<"on", "", "", "50000">>}}

\* the same form with more (or as many) men and women
Grown(form) ==
    {[form EXCEPT !.maleEmployees = <<m>>, !.femaleEmployees = <<f>>] :
        m \in form.maleEmployees[1]..MaxCount,
        f \in form.femaleEmployees[1]..MaxCount}

QuotePair ==
    /\ pc = "idle"
    /\ \E first \in PairForms : \E second \in Grown(first) :
          /\ call' = "calculateQuote, calculateQuote"
          /\ args' = <<first, second>>
          /\ ret' = <<calculateQuote(first), calculateQuote(second)>>
          /\ pc' = IF TypeError \in {calculateQuote(first), calculateQuote(second)}
                   THEN "threw" ELSE "returned"

NextPair == QuotePair

SpecPair == Init /\ [][NextPair]_vars

(* ---------------------------------------------------------------------- *)
(* C15  The NY quote is monotone in head count: of two calculateQuote      *)
(* calls that both return, whose forms have non-negative head counts and   *)
(* agree on tier, billing, hospital flag, optional selections and PFL      *)
(* figures, and where the second has at least as many men and at least as  *)
(* many women as the first (the first may have nobody), the second's       *)
(* displayAmount is at least the first's.  The PFL payroll figure is not a *)
(* head count and may be any number the form carries.                      *)
(* ---------------------------------------------------------------------- *)
PairReturned == call = "calculateQuote, calculateQuote" /\ pc = "returned"

C15_MonotoneInHeadCount ==
    (/\ PairReturned
     /\ ParseOrZero(args[1].employeesOverNYSAWW) >= 0)
    => ret[2].displayAmount >= ret[1].displayAmount

\* the same, for forms whose PFL payroll figure is not negative either
C15_MonotoneNonNegativePayroll ==
    (/\ PairReturned
     /\ ParseOrZero(args[1].employeesOverNYSAWW) >= 0
     /\ ParseOrZero(args[1].payrollBelowNYSAWW) >= 0)
    => ret[2].displayAmount >= ret[1].displayAmount

====
